---- MODULE Spec2Model ----
(***************************************************************************)
(* Model of storages.Create (src/storages/factory.go): the destination     *)
(* factory that resolves defaults, validates the mode, builds the          *)
(* enrichment rules, the field mapper and the mapping step, opens the      *)
(* durable queue for stream destinations and dispatches on the type.       *)
(*                                                                         *)
(* Go values are modelled as follows.  A string is a TLA+ string           *)
(* (concatenation is \o, fmt.Errorf is the concatenation of its pieces).   *)
(* A pointer or interface value is a record with an isNil field.  The      *)
(* collaborators that live in other packages (enrichment.NewRule,          *)
(* schema.NewFieldMapper, schema.NewMappingStep, events.NewPersistentQueue,*)
(* newProxy) are operators of their own; every call Create makes to one of *)
(* them is appended, with its arguments, to the trace of the call.         *)
(* ctx, monitorKeeper, eventsCache and loggerFactory are handed through    *)
(* to the Config unchanged and are left out.                               *)
(***************************************************************************)
EXTENDS Naturals, Sequences, FiniteSets

VARIABLES pc, args, ret, opened

vars == <<pc, args, ret, opened>>

-----------------------------------------------------------------------------
(* Bounds of the input space *)

\* longest enrichment list of a destination configuration
MaxEnrichment == 2

-----------------------------------------------------------------------------
(* Constants of the package *)

defaultTableName == "events"
BatchMode == "batch"
StreamMode == "stream"

RedshiftType == "redshift"
BigQueryType == "bigquery"
PostgresType == "postgres"
ClickHouseType == "clickhouse"
S3Type == "s3"
SnowflakeType == "snowflake"

-----------------------------------------------------------------------------
(* Go values *)

NilErr == [isNil |-> TRUE, msg |-> ""]
Err(m) == [isNil |-> FALSE, msg |-> m]

unknownDestination == Err("Unknown destination type")

NilQueue == [isNil |-> TRUE, identifier |-> "", dir |-> ""]
NilProxy == [isNil |-> TRUE, ctor |-> ""]
NilMapping == [isNil |-> TRUE, Fields |-> <<>>]
NilLayout ==
    [isNil |-> TRUE, MappingType |-> "", Mapping |-> <<>>, Mappings |-> NilMapping,
     TableNameTemplate |-> "", PrimaryKeyFields |-> <<>>]

\* strings.Contains
Contains(s, sub) ==
    \E i \in 1..(Len(s) + 1 - Len(sub)) : SubSeq(s, i, i + Len(sub) - 1) = sub

Range(s) == {s[i] : i \in 1..Len(s)}

-----------------------------------------------------------------------------
(* Collaborators of other packages *)

\* the rule names enrichment.NewRule knows
KnownRuleNames == {"ip_lookup", "user_agent_parse"}

\* enrichment.RuleConfig.String
RuleConfigString(ruleConfig) == ruleConfig.Name \o ": " \o ruleConfig.From \o " -> " \o ruleConfig.To

\* enrichment.NewRule: a rule instance per configuration, an error for a
\* configuration it cannot build a rule from
NewRule(ruleConfig) ==
    IF ruleConfig.Name \in KnownRuleNames
    THEN [rule |-> [kind |-> ruleConfig.Name, from |-> ruleConfig.From, to |-> ruleConfig.To],
          err |-> NilErr]
    ELSE [rule |-> [kind |-> "", from |-> "", to |-> ""],
          err |-> Err("Unknown enrichment rule type: " \o ruleConfig.Name)]

DefaultJsIpRule == [kind |-> "ip_lookup", from |-> "/source_ip", to |-> "/eventn_ctx/location"]
DefaultJsUaRule == [kind |-> "user_agent_parse", from |-> "/eventn_ctx/user_agent", to |-> "/eventn_ctx/parsed_ua"]

\* a legacy mapping rule is "src -> dst"
LegacyRuleOk(m) == Contains(m, " -> ")

\* schema.NewFieldMapper: a mapper for the configured style, an error for a
\* malformed legacy rule.  What it does with both styles at once is not
\* decided in factory.go: rejectsBoth is the environment's answer, and when
\* it is FALSE the configuration is accepted like any other
NewFieldMapper(mappingFieldType, oldStyleMappings, newStyleMapping, rejectsBoth) ==
    LET structured == ~newStyleMapping.isNil /\ Len(newStyleMapping.Fields) # 0
        legacy == Len(oldStyleMappings) > 0
    IN  IF legacy /\ structured /\ rejectsBoth
        THEN [mapper |-> "", err |-> Err("both legacy and structured mapping rules are configured")]
        ELSE IF legacy /\ \E m \in Range(oldStyleMappings) : ~LegacyRuleOk(m)
        THEN [mapper |-> "", err |-> Err("Malformed data mapping")]
        ELSE [mapper |-> IF legacy /\ structured THEN "both"
                         ELSE IF structured THEN "structured"
                         ELSE IF legacy THEN "legacy" ELSE "dummy",
              err |-> NilErr]

\* schema.NewMappingStep: fails when the environment says so (the table
\* name template does not compile)
NewMappingStep(name, tableName, fieldMapper, enrichmentRules, breakOnError, fails) ==
    IF fails
    THEN [step |-> [isNil |-> TRUE], err |-> Err("Error parsing table name template")]
    ELSE [step |-> [isNil |-> FALSE, tableName |-> tableName, mapper |-> fieldMapper,
                    rules |-> enrichmentRules, breakOnError |-> breakOnError],
          err |-> NilErr]

\* events.NewPersistentQueue: a handle on the queue file identifier under
\* dir, or an error when the file cannot be opened
NewPersistentQueue(identifier, dir, fails) ==
    IF fails
    THEN [queue |-> NilQueue, err |-> Err("Error opening/creating event queue")]
    ELSE [queue |-> [isNil |-> FALSE, identifier |-> identifier, dir |-> dir], err |-> NilErr]

\* newProxy: the delivery orchestrator around a storage constructor
newProxy(ctor, storageConfig) == [isNil |-> FALSE, ctor |-> ctor, config |-> storageConfig]

-----------------------------------------------------------------------------
(* storages.Create, section by section *)

\* faulty variant of DefaultType: the name replaces a type that is set
DefaultTypeOverwrites(name, destination) ==
    [destination EXCEPT !.Type = name]

\* if destination.Type == "" { destination.Type = name }
DefaultType(name, destination) ==
    IF destination.Type = "" THEN [destination EXCEPT !.Type = name] ELSE destination

\* if destination.Mode == "" { destination.Mode = BatchMode }
DefaultMode(destination) ==
    IF destination.Mode = "" THEN [destination EXCEPT !.Mode = BatchMode] ELSE destination

\* the locals read off destination.DataLayout; schema.Default is ""
ReadDataLayout(destination) ==
    IF ~destination.DataLayout.isNil
    THEN [mappingFieldType |-> destination.DataLayout.MappingType,
          oldStyleMappings |-> destination.DataLayout.Mapping,
          newStyleMapping |-> destination.DataLayout.Mappings,
          tableName |-> IF destination.DataLayout.TableNameTemplate # ""
                        THEN destination.DataLayout.TableNameTemplate
                        ELSE "",
          pkFields |-> Range(destination.DataLayout.PrimaryKeyFields)]
    ELSE [mappingFieldType |-> "", oldStyleMappings |-> <<>>, newStyleMapping |-> NilMapping,
          tableName |-> "", pkFields |-> {}]

\* faulty variant of ResolveTableName: no default table name
ResolveTableNameKeepsEmpty(tableName) ==
    tableName

\* if tableName == "" { tableName = defaultTableName }
ResolveTableName(tableName) ==
    IF tableName = "" THEN defaultTableName ELSE tableName

\* destination.Mode != BatchMode && destination.Mode != StreamMode
ModeRejected(mode) ==
    mode # BatchMode /\ mode # StreamMode

\* faulty variant of ModeError: the message does not list the modes
ModeErrorOmitsModes(mode) ==
    Err("Unknown destination mode: " \o mode)

\* fmt.Errorf("Unknown destination mode: %s. Available mode: [%s, %s]", ...)
ModeError(mode) ==
    Err("Unknown destination mode: " \o mode \o ". Available mode: [" \o BatchMode \o ", "
        \o StreamMode \o "]")

\* fmt.Errorf("Error creating enrichment rule [%s]: %v", ruleConfig.String(), err)
RuleError(ruleConfig, err) ==
    Err("Error creating enrichment rule [" \o RuleConfigString(ruleConfig) \o "]: " \o err.msg)

\* enrichmentRules := []enrichment.Rule{DefaultJsIpRule, DefaultJsUaRule}
DefaultEnrichmentRules == <<DefaultJsIpRule, DefaultJsUaRule>>

\* one collaborator call of the trace: what was called, with what, and
\* whether it returned a nil error
Call(op, arg, ok) == [op |-> op, arg |-> arg, ok |-> ok]

\* faulty variant of EnrichmentLoop: a rule that cannot be built is skipped
RECURSIVE EnrichmentLoopSkips(_, _, _, _)
EnrichmentLoopSkips(enrichment, i, enrichmentRules, trace) ==
    IF i > Len(enrichment)
    THEN [rules |-> enrichmentRules, err |-> NilErr, trace |-> trace]
    ELSE LET ruleConfig == enrichment[i]
             made == NewRule(ruleConfig)
             called == Append(trace, Call("NewRule", <<ruleConfig>>, made.err.isNil))
         IN  IF ~made.err.isNil
             THEN EnrichmentLoopSkips(enrichment, i + 1, enrichmentRules, called)
             ELSE EnrichmentLoopSkips(enrichment, i + 1, Append(enrichmentRules, made.rule),
                                      called)

\* for _, ruleConfig := range destination.Enrichment { ... }, from entry i on
RECURSIVE EnrichmentLoop(_, _, _, _)
EnrichmentLoop(enrichment, i, enrichmentRules, trace) ==
    IF i > Len(enrichment)
    THEN [rules |-> enrichmentRules, err |-> NilErr, trace |-> trace]
    ELSE LET ruleConfig == enrichment[i]
             made == NewRule(ruleConfig)
             called == Append(trace, Call("NewRule", <<ruleConfig>>, made.err.isNil))
         IN  IF ~made.err.isNil
             THEN [rules |-> enrichmentRules, err |-> RuleError(ruleConfig, made.err),
                   trace |-> called]
             ELSE EnrichmentLoop(enrichment, i + 1, Append(enrichmentRules, made.rule), called)

\* "queue.dst="+name
QueueIdentifier(name) == "queue.dst=" \o name

\* faulty variant of OpenQueue: the queue is opened in batch mode too
OpenQueueAnyMode(name, logEventPath, destination, fails) ==
    LET q == NewPersistentQueue(QueueIdentifier(name), logEventPath, fails)
    IN  [queue |-> q.queue, err |-> q.err,
         trace |-> <<Call("NewPersistentQueue", <<QueueIdentifier(name), logEventPath>>,
                          q.err.isNil)>>]

\* faulty variant of OpenQueue: the queue is named after the type
OpenQueueNamedByType(name, logEventPath, destination, fails) ==
    IF destination.Mode = StreamMode
    THEN LET q == NewPersistentQueue(QueueIdentifier(destination.Type), logEventPath, fails)
         IN  [queue |-> q.queue, err |-> q.err,
              trace |-> <<Call("NewPersistentQueue",
                               <<QueueIdentifier(destination.Type), logEventPath>>,
                               q.err.isNil)>>]
    ELSE [queue |-> NilQueue, err |-> NilErr, trace |-> <<>>]

\* if destination.Mode == StreamMode { eventQueue, err = events.NewPersistentQueue(...) }
OpenQueue(name, logEventPath, destination, fails) ==
    IF destination.Mode = StreamMode
    THEN LET q == NewPersistentQueue(QueueIdentifier(name), logEventPath, fails)
         IN  [queue |-> q.queue, err |-> q.err,
              trace |-> <<Call("NewPersistentQueue",
                               <<QueueIdentifier(name), logEventPath>>,
                               q.err.isNil)>>]
    ELSE [queue |-> NilQueue, err |-> NilErr, trace |-> <<>>]

\* storageConfig := &Config{...}
StorageConfig(name, destination, processor, eventQueue, pkFields) ==
    [name |-> name, destination |-> destination, processor |-> processor,
     streamMode |-> (destination.Mode = StreamMode), eventQueue |-> eventQueue,
     pkFields |-> pkFields]

\* what a call hands back: the three return values, the collaborator calls it
\* made in order, and the type and mode it logged on entry
Returned(proxy, queue, err, trace, destination) ==
    [proxy |-> proxy, queue |-> queue, err |-> err, trace |-> trace,
     type |-> destination.Type, mode |-> destination.Mode]

\* the constructor the type switch selects, "" in the default case
Constructor(type) ==
    CASE type = RedshiftType -> "NewAwsRedshift"
      [] type = BigQueryType -> "NewBigQuery"
      [] type = PostgresType -> "NewPostgres"
      [] type = ClickHouseType -> "NewClickHouse"
      [] type = S3Type -> "NewS3"
      [] type = SnowflakeType -> "NewSnowflake"
      [] OTHER -> ""

\* faulty variant of Dispatch: the default case does not close the queue
DispatchLeavesQueue(destination, storageConfig, eventQueue, trace) ==
    IF Constructor(destination.Type) # ""
    THEN Returned(newProxy(Constructor(destination.Type), storageConfig), eventQueue, NilErr,
                  Append(trace, Call("newProxy",
                                     <<Constructor(destination.Type), storageConfig>>, TRUE)),
                  destination)
    ELSE Returned(NilProxy, NilQueue, unknownDestination, trace, destination)

\* faulty variant of Dispatch: the default case hands the open queue back
DispatchReturnsQueue(destination, storageConfig, eventQueue, trace) ==
    IF Constructor(destination.Type) # ""
    THEN Returned(newProxy(Constructor(destination.Type), storageConfig), eventQueue, NilErr,
                  Append(trace, Call("newProxy",
                                     <<Constructor(destination.Type), storageConfig>>, TRUE)),
                  destination)
    ELSE Returned(NilProxy, eventQueue, unknownDestination, trace, destination)

\* switch destination.Type { ... default: close the queue, unknownDestination }
Dispatch(destination, storageConfig, eventQueue, trace) ==
    IF Constructor(destination.Type) # ""
    THEN Returned(newProxy(Constructor(destination.Type), storageConfig), eventQueue, NilErr,
                  Append(trace, Call("newProxy",
                                     <<Constructor(destination.Type), storageConfig>>, TRUE)),
                  destination)
    ELSE IF ~eventQueue.isNil
    THEN Returned(NilProxy, NilQueue, unknownDestination,
                  Append(trace, Call("Close", <<eventQueue.identifier>>, TRUE)), destination)
    ELSE Returned(NilProxy, NilQueue, unknownDestination, trace, destination)

\* from the queue on: open it for stream mode, build the Config, dispatch
QueueAndDispatch(name, logEventPath, destination, processor, pkFields, env, trace) ==
    LET q == OpenQueue(name, logEventPath, destination, env.queueFails)
    IN  IF ~q.err.isNil
        THEN Returned(NilProxy, NilQueue, q.err, trace \o q.trace, destination)
        ELSE Dispatch(destination,
                      StorageConfig(name, destination, processor, q.queue, pkFields),
                      q.queue, trace \o q.trace)

\* the calls of schema.NewFieldMapper and schema.NewMappingStep, as traced
MapperCall(layout, fm) ==
    Call("NewFieldMapper",
         <<layout.mappingFieldType, layout.oldStyleMappings, layout.newStyleMapping>>,
         fm.err.isNil)
StepCall(name, tableName, fm, enrichmentRules, destination, ms) ==
    Call("NewMappingStep",
         <<name, tableName, fm.mapper, enrichmentRules, destination.BreakOnError>>,
         ms.err.isNil)

\* from the field mapper on: schema.NewFieldMapper, schema.NewMappingStep
MapperAndStep(name, logEventPath, destination, layout, enrichmentRules, env, trace) ==
    LET fm == NewFieldMapper(layout.mappingFieldType, layout.oldStyleMappings,
                             layout.newStyleMapping, env.rejectsBoth)
        t1 == Append(trace, MapperCall(layout, fm))
        tableName == ResolveTableName(layout.tableName)
        ms == NewMappingStep(name, tableName, fm.mapper, enrichmentRules,
                             destination.BreakOnError, env.stepFails)
        t2 == Append(t1, StepCall(name, tableName, fm, enrichmentRules, destination, ms))
    IN  IF ~fm.err.isNil
        THEN Returned(NilProxy, NilQueue, fm.err, t1, destination)
        ELSE IF ~ms.err.isNil
        THEN Returned(NilProxy, NilQueue, ms.err, t2, destination)
        ELSE QueueAndDispatch(name, logEventPath, destination, ms.step, layout.pkFields,
                              env, t2)

\* faulty variant of Create: the mode is checked after the enrichment rules
CreateRulesBeforeMode(name, logEventPath, destination0, env) ==
    LET destination == DefaultMode(DefaultType(name, destination0))
        layout == ReadDataLayout(destination)
        er == EnrichmentLoop(destination.Enrichment, 1, DefaultEnrichmentRules, <<>>)
    IN  IF ~er.err.isNil
        THEN Returned(NilProxy, NilQueue, er.err, er.trace, destination)
        ELSE IF ModeRejected(destination.Mode)
        THEN Returned(NilProxy, NilQueue, ModeError(destination.Mode), er.trace, destination)
        ELSE MapperAndStep(name, logEventPath, destination, layout, er.rules, env, er.trace)

\* func Create(ctx, name, logEventPath, destination, ...) (StorageProxy, *PersistentQueue, error)
Create(name, logEventPath, destination0, env) ==
    LET destination == DefaultMode(DefaultType(name, destination0))
        layout == ReadDataLayout(destination)
        er == EnrichmentLoop(destination.Enrichment, 1, DefaultEnrichmentRules, <<>>)
    IN  IF ModeRejected(destination.Mode)
        THEN Returned(NilProxy, NilQueue, ModeError(destination.Mode), <<>>, destination)
        ELSE IF ~er.err.isNil
        THEN Returned(NilProxy, NilQueue, er.err, er.trace, destination)
        ELSE MapperAndStep(name, logEventPath, destination, layout, er.rules, env, er.trace)

-----------------------------------------------------------------------------
(* The calls the model makes *)

Names == {"postgres", "warehouse", "s3"}
Types == {"", RedshiftType, BigQueryType, PostgresType, ClickHouseType, S3Type,
          SnowflakeType, "mongodb"}
Modes == {"", BatchMode, StreamMode, "invalid"}
LogEventPath == "/var/log/events"

RuleConfigs ==
    {[Name |-> "ip_lookup", From |-> "/ip", To |-> "/geo"],
     [Name |-> "user_agent_parse", From |-> "/ua", To |-> "/parsed_ua"],
     [Name |-> "uppercase", From |-> "/a", To |-> "/b"]}

Enrichments == UNION {[1..n -> RuleConfigs] : n \in 0..MaxEnrichment}

DataLayouts ==
    {NilLayout} \cup
    [isNil : {FALSE}, MappingType : {"strict"},
     Mapping : {<<>>, <<"/key1 -> /key2">>, <<"key1=key2">>},
     Mappings : {NilMapping, [isNil |-> FALSE, Fields |-> <<"/key3 -> /key4">>]},
     TableNameTemplate : {"", "{{.event_type}}"},
     PrimaryKeyFields : {<<"id">>}]

DestinationConfigs ==
    [Type : Types, Mode : Modes, DataLayout : DataLayouts, Enrichment : Enrichments,
     BreakOnError : {FALSE}]

\* what the environment decides: whether the field mapper rejects both
\* mapping styles at once, whether the mapping step can be built and whether
\* the queue file can be opened
Envs == [rejectsBoth : BOOLEAN, stepFails : BOOLEAN, queueFails : BOOLEAN]

\* both mapping styles are configured: legacy rules and structured fields
HasBothStyles(destination) ==
    /\ ~destination.DataLayout.isNil
    /\ Len(destination.DataLayout.Mapping) > 0
    /\ ~destination.DataLayout.Mappings.isNil
    /\ Len(destination.DataLayout.Mappings.Fields) > 0

\* the environments of a call: the mapper's verdict on both styles is drawn
\* only where it is asked for
EnvsOf(destination) ==
    {env \in Envs : HasBothStyles(destination) \/ env.rejectsBoth}

NoArgs == [name |-> "", destination |-> <<>>, env |-> <<>>]
NoRet == Returned(NilProxy, NilQueue, NilErr, <<>>, [Type |-> "", Mode |-> ""])

\* the calls of the trace to one collaborator
CallsTo(trace, op) == SelectSeq(trace, LAMBDA e : e.op = op)

Init ==
    /\ pc = "idle"
    /\ args = NoArgs
    /\ ret = NoRet
    /\ opened = {}

\* one call of Create, from entry to return
CallCreate ==
    /\ pc = "idle"
    /\ \E name \in Names, destination \in DestinationConfigs :
          \E env \in EnvsOf(destination) :
          LET r == Create(name, LogEventPath, destination, env)
          IN  /\ args' = [name |-> name, destination |-> destination, env |-> env]
              /\ ret' = r
              /\ opened' = opened \cup
                    {[dst |-> name, identifier |-> e.arg[1]] :
                        e \in Range(CallsTo(r.trace, "NewPersistentQueue"))}
    /\ pc' = "returned"

\* the caller has taken the returned values
Return ==
    /\ pc = "returned"
    /\ pc' = "idle"
    /\ args' = NoArgs
    /\ ret' = NoRet
    /\ UNCHANGED opened

Next == CallCreate \/ Return

Spec == Init /\ [][Next]_vars

-----------------------------------------------------------------------------
(* Vocabulary of the properties, in terms of a call's arguments and of what *)
(* it returned                                                             *)

Returning == pc = "returned"

RecognizedTypes ==
    {"redshift", "bigquery", "postgres", "clickhouse", "s3", "snowflake"}

EffectiveType == IF args.destination.Type = "" THEN args.name ELSE args.destination.Type
EffectiveMode == IF args.destination.Mode = "" THEN "batch" ELSE args.destination.Mode

ModeIsValid == EffectiveMode \in {"batch", "stream"}

\* the first configured enrichment entry no rule can be built from, 0 if none
FirstBadRule ==
    LET bad == {i \in 1..Len(args.destination.Enrichment) :
                    ~NewRule(args.destination.Enrichment[i]).err.isNil}
    IN  IF bad = {} THEN 0 ELSE CHOOSE i \in bad : \A j \in bad : i <= j

LegacyRules ==
    IF args.destination.DataLayout.isNil THEN <<>> ELSE args.destination.DataLayout.Mapping
StructuredRules ==
    IF args.destination.DataLayout.isNil THEN NilMapping
    ELSE args.destination.DataLayout.Mappings
BothMappingStyles ==
    Len(LegacyRules) > 0 /\ ~StructuredRules.isNil /\ Len(StructuredRules.Fields) > 0
MapperRejects ==
    ~NewFieldMapper(IF args.destination.DataLayout.isNil THEN ""
                    ELSE args.destination.DataLayout.MappingType,
                    LegacyRules, StructuredRules, args.env.rejectsBoth).err.isNil

\* every step before the type switch succeeds
ReachesDispatch ==
    /\ ModeIsValid
    /\ FirstBadRule = 0
    /\ ~MapperRejects
    /\ ~args.env.stepFails
    /\ ~(EffectiveMode = "stream" /\ args.env.queueFails)

Failed == ~ret.err.isNil
Succeeded == ret.err.isNil

Ops(trace) == [i \in 1..Len(trace) |-> trace[i].op]

\* the queues this call opened and has not closed
LeftOpen(trace) ==
    {trace[i].arg[1] : i \in {k \in 1..Len(trace) :
        /\ trace[k].op = "NewPersistentQueue"
        /\ trace[k].ok
        /\ ~\E j \in (k + 1)..Len(trace) :
               trace[j].op = "Close" /\ trace[j].arg[1] = trace[k].arg[1]}}

QueueOpens(trace) == Len(CallsTo(trace, "NewPersistentQueue"))

-----------------------------------------------------------------------------
(* Properties *)

\* C1: a call whose effective type is none of the six recognized types and
\* that reaches the type switch returns the "Unknown destination type" error,
\* a nil proxy and a nil queue, and has closed the queue it opened.
UnknownTypeClosesQueue ==
    (Returning /\ ReachesDispatch /\ EffectiveType \notin RecognizedTypes) =>
        /\ ret.err = Err("Unknown destination type")
        /\ ret.proxy.isNil
        /\ ret.queue.isNil
        /\ LeftOpen(ret.trace) = {}
        /\ EffectiveMode = "stream" =>
              /\ QueueOpens(ret.trace) = 1
              /\ ret.trace[Len(ret.trace)].op = "Close"

UnknownTypeClosesQueueWitness ==
    /\ Returning /\ ReachesDispatch /\ EffectiveType \notin RecognizedTypes
    /\ EffectiveMode = "stream"
    /\ \E i \in 1..Len(ret.trace) : ret.trace[i].op = "NewPersistentQueue" /\ ret.trace[i].ok
    /\ ret.err.msg = "Unknown destination type"

\* C2: a call whose effective mode is neither batch nor stream returns an
\* error naming both valid modes, a nil proxy and a nil queue, and neither
\* opens a queue nor builds an enrichment rule.
InvalidModeRejected ==
    (Returning /\ ~ModeIsValid) =>
        /\ Failed
        /\ Contains(ret.err.msg, "batch")
        /\ Contains(ret.err.msg, "stream")
        /\ ret.proxy.isNil
        /\ ret.queue.isNil
        /\ CallsTo(ret.trace, "NewPersistentQueue") = <<>>
        /\ CallsTo(ret.trace, "NewRule") = <<>>

InvalidModeRejectedWitness ==
    /\ Returning
    /\ args.destination.Mode = "invalid"
    /\ Len(args.destination.Enrichment) > 0
    /\ Failed
    /\ Contains(ret.err.msg, "invalid")

\* C3: a call ends either in success (a proxy, a nil error) or in failure
\* (an error, a nil proxy, a nil queue), and after a failure no queue the
\* call opened is still open.
SuccessOrCleanFailure ==
    Returning =>
        /\ \/ ~ret.proxy.isNil /\ ret.err.isNil
           \/ ~ret.err.isNil /\ ret.proxy.isNil /\ ret.queue.isNil
        /\ ~(~ret.proxy.isNil /\ ~ret.err.isNil)
        /\ Failed => LeftOpen(ret.trace) = {}
        /\ Succeeded => LeftOpen(ret.trace) \subseteq {ret.queue.identifier}

SuccessOrCleanFailureWitness ==
    /\ Returning /\ Failed
    /\ QueueOpens(ret.trace) = 1
    /\ ret.trace[Len(ret.trace)] = Call("Close", <<"queue.dst=" \o args.name>>, TRUE)
    /\ ret.proxy.isNil /\ ret.queue.isNil

\* C4: on success the returned queue is non-nil exactly in stream mode, a
\* batch destination opens no queue, and the Config given to the proxy has
\* streamMode true exactly when its eventQueue is non-nil.
QueueIffStream ==
    Returning =>
        /\ Succeeded => (~ret.queue.isNil <=> EffectiveMode = "stream")
        /\ EffectiveMode = "batch" => QueueOpens(ret.trace) = 0
        /\ \A i \in 1..Len(ret.trace) :
              ret.trace[i].op = "newProxy" =>
                  /\ ret.trace[i].arg[2].streamMode <=> ~ret.trace[i].arg[2].eventQueue.isNil
                  /\ ret.trace[i].arg[2].eventQueue = ret.queue
                  /\ ret.proxy.config = ret.trace[i].arg[2]

QueueIffStreamWitness ==
    /\ Returning /\ Succeeded
    /\ args.destination.Mode = "stream"
    /\ ~ret.queue.isNil
    /\ ret.proxy.config.streamMode
    /\ ret.proxy.config.eventQueue.identifier = "queue.dst=" \o args.name

\* C5: an empty type is replaced by the destination name and an empty mode
\* by batch before anything else: the call with an empty type and name N
\* returns what the call with type N returns, the call with an empty mode
\* returns what the call with mode batch returns (no queue, streamMode
\* false), and a type or mode that is set is kept.
DefaultsAppliedFirst ==
    Returning =>
        /\ args.destination.Type = "" =>
              /\ ret.type = args.name
              /\ ret = Create(args.name, LogEventPath,
                              [args.destination EXCEPT !.Type = args.name], args.env)
        /\ args.destination.Mode = "" =>
              /\ ret.mode = "batch"
              /\ ret = Create(args.name, LogEventPath,
                              [args.destination EXCEPT !.Mode = "batch"], args.env)
              /\ QueueOpens(ret.trace) = 0
              /\ ret.queue.isNil
              /\ Succeeded => ~ret.proxy.config.streamMode
              /\ ~Contains(ret.err.msg, "Unknown destination mode")
        /\ args.destination.Type # "" => ret.type = args.destination.Type
        /\ args.destination.Mode # "" => ret.mode = args.destination.Mode
        /\ Succeeded => /\ ret.proxy.config.destination.Type = EffectiveType
                        /\ ret.proxy.config.destination.Mode = EffectiveMode
                        /\ ret.proxy.ctor = Constructor(EffectiveType)

DefaultsAppliedFirstWitness ==
    /\ Returning /\ Succeeded
    /\ args.destination.Type = "" /\ args.destination.Mode = ""
    /\ args.name = "postgres"
    /\ ret.proxy.ctor = "NewPostgres"
    /\ ~ret.proxy.config.streamMode

\* C6: the table name given to the mapping step is never empty: it is the
\* configured table_name_template when data_layout is present and the
\* template is not empty, and "events" otherwise.
TableNameNeverEmpty ==
    Returning =>
        \A i \in 1..Len(ret.trace) :
            ret.trace[i].op = "NewMappingStep" =>
                /\ ret.trace[i].arg[2] # ""
                /\ ret.trace[i].arg[2] =
                      IF /\ ~args.destination.DataLayout.isNil
                         /\ args.destination.DataLayout.TableNameTemplate # ""
                      THEN args.destination.DataLayout.TableNameTemplate
                      ELSE "events"
                /\ Succeeded => ret.proxy.config.processor.tableName = ret.trace[i].arg[2]

TableNameNeverEmptyWitness ==
    /\ Returning /\ Succeeded
    /\ ~args.destination.DataLayout.isNil
    /\ args.destination.DataLayout.TableNameTemplate = ""
    /\ ret.proxy.config.processor.tableName = "events"

\* C8: the rule list given to the mapping step is the IP rule, the
\* user-agent rule, then one rule per configured entry in configuration
\* order; when an entry's rule cannot be built the call fails with no proxy
\* and no queue and builds no later rule.
EnrichmentRulesInOrder ==
    Returning =>
        /\ \A i \in 1..Len(ret.trace) :
              ret.trace[i].op = "NewMappingStep" =>
                  LET rules == ret.trace[i].arg[4]
                      n == Len(args.destination.Enrichment)
                  IN  /\ Len(rules) = 2 + n
                      /\ rules[1].kind = "ip_lookup"
                      /\ rules[2].kind = "user_agent_parse"
                      /\ \A k \in 1..n :
                            rules[2 + k] = NewRule(args.destination.Enrichment[k]).rule
                      /\ [k \in 1..n |-> CallsTo(ret.trace, "NewRule")[k].arg[1]]
                            = args.destination.Enrichment
        /\ (ModeIsValid /\ FirstBadRule # 0) =>
              /\ Failed
              /\ ret.proxy.isNil
              /\ ret.queue.isNil
              /\ Ops(ret.trace) = [k \in 1..FirstBadRule |-> "NewRule"]
              /\ \A k \in 1..FirstBadRule :
                    ret.trace[k].arg[1] = args.destination.Enrichment[k]

EnrichmentRulesInOrderWitness ==
    /\ Returning
    /\ ModeIsValid
    /\ Len(args.destination.Enrichment) = 2
    /\ FirstBadRule = 1
    /\ NewRule(args.destination.Enrichment[2]).err.isNil
    /\ Len(ret.trace) = 1
    /\ Failed

\* a second reachable case of C8: two configured rules, both built, in order
EnrichmentRulesPassedOn ==
    /\ Returning /\ Succeeded
    /\ Len(args.destination.Enrichment) = 2
    /\ args.destination.Enrichment[1].Name = "user_agent_parse"
    /\ args.destination.Enrichment[2].Name = "ip_lookup"
    /\ Len(ret.proxy.config.processor.rules) = 4
    /\ ret.proxy.config.processor.rules[3].kind = "user_agent_parse"

\* C9: the queue of a stream destination is named "queue.dst=" followed by
\* the destination name and by nothing else of the configuration: calls with
\* distinct names never open the same queue, calls with the same name always
\* open the same queue.
QueueNamedByDestination ==
    /\ \A a \in opened : a.identifier = "queue.dst=" \o a.dst
    /\ \A a, b \in opened : (a.dst = b.dst) <=> (a.identifier = b.identifier)
    /\ Returning =>
          \A i \in 1..Len(ret.trace) :
              ret.trace[i].op = "NewPersistentQueue" =>
                  [dst |-> args.name, identifier |-> ret.trace[i].arg[1]] \in opened

QueueNamedByDestinationWitness ==
    /\ Returning
    /\ Cardinality(opened) = 3
    /\ QueueOpens(ret.trace) = 1
    /\ args.destination.Type # args.name
    /\ \E a, b \in opened : a.dst # b.dst /\ a.identifier # b.identifier

\* the rank of a step in the order of Create
StepRank(op) ==
    CASE op = "NewRule" -> 1
      [] op = "NewFieldMapper" -> 2
      [] op = "NewMappingStep" -> 3
      [] op = "NewPersistentQueue" -> 4
      [] op = "Close" -> 5
      [] op = "newProxy" -> 5

\* the error the first failing step gives, on the call's arguments
FirstFailure ==
    IF ~ModeIsValid THEN "Unknown destination mode: "
    ELSE IF FirstBadRule # 0 THEN "Error creating enrichment rule ["
    ELSE IF MapperRejects
    THEN NewFieldMapper("", LegacyRules, StructuredRules, args.env.rejectsBoth).err.msg
    ELSE IF args.env.stepFails THEN "Error parsing table name template"
    ELSE IF EffectiveMode = "stream" /\ args.env.queueFails
    THEN "Error opening/creating event queue"
    ELSE IF EffectiveType \notin RecognizedTypes THEN "Unknown destination type"
    ELSE ""

\* C10: the steps of a call run in the order mode validation, enrichment
\* rules, field mapper, mapping step, queue, type switch: at most one queue
\* is opened, and only after every earlier step succeeded; the first failing
\* step gives the error; an unknown type in stream mode is found after the
\* queue was opened, which is then closed.
StepsInFixedOrder ==
    Returning =>
        /\ \A i, j \in 1..Len(ret.trace) :
              i < j =>
                  /\ StepRank(ret.trace[i].op) <= StepRank(ret.trace[j].op)
                  /\ ret.trace[i].op # "NewRule" =>
                        StepRank(ret.trace[i].op) < StepRank(ret.trace[j].op)
                  /\ ret.trace[i].ok
        /\ ~ModeIsValid => ret.trace = <<>>
        /\ QueueOpens(ret.trace) <= 1
        /\ \A i \in 1..Len(ret.trace) :
              ret.trace[i].op = "NewPersistentQueue" =>
                  /\ i = Len(args.destination.Enrichment) + 3
                  /\ ret.trace[i - 1].op = "NewMappingStep" /\ ret.trace[i - 1].ok
                  /\ ret.trace[i - 2].op = "NewFieldMapper" /\ ret.trace[i - 2].ok
                  /\ ModeIsValid /\ FirstBadRule = 0
        /\ IF FirstFailure = "" THEN Succeeded
           ELSE Failed /\ SubSeq(ret.err.msg, 1, Len(FirstFailure)) = FirstFailure
        /\ (ReachesDispatch /\ EffectiveMode = "stream"
                /\ EffectiveType \notin RecognizedTypes) =>
              /\ Len(ret.trace) = Len(args.destination.Enrichment) + 4
              /\ ret.trace[Len(ret.trace) - 1].op = "NewPersistentQueue"
              /\ ret.trace[Len(ret.trace) - 1].ok
              /\ ret.trace[Len(ret.trace)].op = "Close"

StepsInFixedOrderWitness ==
    /\ Returning
    /\ args.destination.Mode = "invalid"
    /\ EffectiveType \notin RecognizedTypes
    /\ FirstBadRule # 0
    /\ BothMappingStyles
    /\ args.env.stepFails /\ args.env.queueFails
    /\ SubSeq(ret.err.msg, 1, 25) = "Unknown destination mode:"

\* a second reachable case of C10: an unknown type in stream mode after two
\* configured rules, the queue opened and then closed
StepsInFixedOrderQueueClosed ==
    /\ Returning /\ ReachesDispatch
    /\ EffectiveMode = "stream" /\ EffectiveType \notin RecognizedTypes
    /\ Ops(ret.trace) = <<"NewRule", "NewRule", "NewFieldMapper", "NewMappingStep",
                          "NewPersistentQueue", "Close">>

====
